---- MODULE Spec2Model ----
(***************************************************************************)
(* Model of frontend/src/pages/tracker-report.page.tsx: the tracker report *)
(* page.  parseHash decodes the report carried by the URL fragment, and    *)
(* TrackerReport keeps the parsed report as its only piece of state.       *)
(*                                                                         *)
(* A JavaScript string is a sequence of UTF-16 code units (integers); the  *)
(* comment beside a literal spells it.  A JavaScript value is a record     *)
(* with a "type" field.  The library functions parseHash calls             *)
(* (String.prototype.substring, decodeURIComponent, JSON.parse) and those  *)
(* of the report URL recipe of lines 16-19 (JSON.stringify, the URL hash   *)
(* setter) are modelled after their standards.                             *)
(***************************************************************************)
EXTENDS Integers, Sequences, FiniteSets, TLC

VARIABLES
    locationHash,  \* window.location.hash
    reportData,    \* the useState value of TrackerReport
    phase,         \* "rendered" (effect not yet run), "mounted", "unmounted", "crashed"
    listening,     \* whether updateReportData is registered for "hashchange"
    events,        \* hashchange events fired by the browser and not yet dispatched
    input,         \* the argument of a call of parseHash
    output,        \* the completion of that call, NotCalled before it
    origin         \* the value the input was generated from (lines 16-19), or NoOrigin

vars == <<locationHash, reportData, phase, listening, events, input, output, origin>>
pageVars == <<locationHash, reportData, phase, listening, events>>
callVars == <<input, output, origin>>

(***************************************************************************)
(* Characters                                                              *)
(***************************************************************************)
BACKSPACE == 8
TAB == 9
LF == 10
FORMFEED == 12
CR == 13
SPACE == 32
QUOTE == 34
HASH == 35
PERCENT == 37
PLUS == 43
COMMA == 44
MINUS == 45
DOT == 46
SLASH == 47
ZERO == 48
COLON == 58
LESS == 60
GREATER == 62
UPPER_A == 65
UPPER_E == 69
LBRACKET == 91
BSLASH == 92
RBRACKET == 93
BACKTICK == 96
LOWER_A == 97
LOWER_B == 98
LOWER_E == 101
LOWER_F == 102
LOWER_N == 110
LOWER_R == 114
LOWER_T == 116
LOWER_U == 117
LBRACE == 123
RBRACE == 125

Digits == 48..57
UpperHex == 65..70
LowerHex == 97..102

\* The least element of a non-empty set of integers.
Min(S) == CHOOSE x \in S : \A y \in S : x <= y

\* The concatenation of ss[lo], ..., ss[hi].
RECURSIVE FlattenRange(_, _, _)
FlattenRange(ss, lo, hi) ==
    IF lo > hi THEN <<>>
    ELSE IF lo = hi THEN ss[lo]
    ELSE FlattenRange(ss, lo, (lo + hi) \div 2) \o FlattenRange(ss, (lo + hi) \div 2 + 1, hi)

Flatten(ss) == FlattenRange(ss, 1, Len(ss))

\* s.substring(from) with from counted from 0, as in JavaScript.
Substring(s, from) == SubSeq(s, from + 1, Len(s))

StartsWith(s, i, lit) ==
    /\ i + Len(lit) - 1 <= Len(s)
    /\ SubSeq(s, i, i + Len(lit) - 1) = lit

HasChar(s, i, cs) == i >= 1 /\ i <= Len(s) /\ s[i] \in cs

\* The first index from i on whose character is not in cs, Len(s) + 1 if none.
SkipChars(s, i, cs) == Min({j \in i..Len(s) : s[j] \notin cs} \cup {Len(s) + 1})

(***************************************************************************)
(* Completions: a call returns a value or throws.                          *)
(***************************************************************************)
Normal(v) == [value |-> v]
Throw(e) == [thrown |-> e]
IsThrow(c) == "thrown" \in DOMAIN c

(***************************************************************************)
(* decodeURIComponent (ECMAScript Decode with an empty reserved set).      *)
(* Decode walks the string; a "%" must start an escape "%XY", an escape    *)
(* with a UTF-8 lead byte takes the escapes that follow it as its          *)
(* continuation bytes, and an escape it meets otherwise must be a single   *)
(* byte.  A hexadecimal digit is no "%", so escapes never overlap and what *)
(* each index contributes to the result is decided around that index.      *)
(***************************************************************************)
IsHexDigit(c) == c \in Digits \/ c \in UpperHex \/ c \in LowerHex

HexValue(c) ==
    IF c \in Digits THEN c - ZERO
    ELSE IF c \in UpperHex THEN c - UPPER_A + 10
    ELSE c - LOWER_A + 10

\* s[k .. k+2] is "%XY" with X, Y hexadecimal digits.
IsEscape(s, k) ==
    /\ k >= 1
    /\ k + 2 <= Len(s)
    /\ s[k] = PERCENT
    /\ IsHexDigit(s[k + 1])
    /\ IsHexDigit(s[k + 2])

EscapeByte(s, k) == 16 * HexValue(s[k + 1]) + HexValue(s[k + 2])

\* The number of leading 1 bits of the byte b.
LeadingOnes(b) ==
    IF b < 128 THEN 0
    ELSE IF b < 192 THEN 1
    ELSE IF b < 224 THEN 2
    ELSE IF b < 240 THEN 3
    ELSE IF b < 248 THEN 4
    ELSE 5

\* The code point the octets (2 to 4 of them) encode in UTF-8, or -1 when
\* they are no valid encoding.
Utf8Value(octets, n) ==
    IF n = 2 THEN (octets[1] - 192) * 64 + (octets[2] - 128)
    ELSE IF n = 3
    THEN (octets[1] - 224) * 4096 + (octets[2] - 128) * 64 + (octets[3] - 128)
    ELSE (octets[1] - 240) * 262144 + (octets[2] - 128) * 4096
         + (octets[3] - 128) * 64 + (octets[4] - 128)

Utf8Least(n) == IF n = 2 THEN 128 ELSE IF n = 3 THEN 2048 ELSE 65536

ValidCodePoint(cp, least) ==
    IF cp >= least /\ cp <= 1114111 /\ cp \notin 55296..57343 THEN cp ELSE -1

Utf8CodePoint(octets) ==
    IF \A j \in 2..Len(octets) : octets[j] \in 128..191
    THEN ValidCodePoint(Utf8Value(octets, Len(octets)), Utf8Least(Len(octets)))
    ELSE -1

\* The UTF-16 code units of a code point.
Utf16Encode(cp) ==
    IF cp < 65536 THEN <<cp>>
    ELSE <<55296 + ((cp - 65536) \div 1024), 56320 + ((cp - 65536) % 1024)>>

\* The code point of the escapes that start at k with a lead byte announcing
\* n bytes, or -1.
EscapedCodePoint(s, k, n) ==
    IF \A j \in 1..(n - 1) : IsEscape(s, k + 3 * j)
    THEN Utf8CodePoint([j \in 1..n |-> EscapeByte(s, k + 3 * (j - 1))])
    ELSE -1

\* The escape at k is a continuation byte of a lead byte before it.
IsContinuationOfLead(s, k) ==
    \E j \in 1..3 :
        /\ IsEscape(s, k - 3 * j)
        /\ LeadingOnes(EscapeByte(s, k - 3 * j)) \in (j + 1)..4

\* Decode throws at the "%" at k.
BadEscape(s, k, n) ==
    \/ n = 1 /\ ~IsContinuationOfLead(s, k)
    \/ n \in 2..4 /\ EscapedCodePoint(s, k, n) < 0
    \/ n > 4

\* The code units index k contributes to the decoded string.
DecodedEscape(s, k, n) ==
    IF n = 0 THEN <<EscapeByte(s, k)>>
    ELSE IF n = 1 THEN <<>>
    ELSE Utf16Encode(EscapedCodePoint(s, k, n))

DecodedAt(s, k) ==
    IF s[k] = PERCENT THEN DecodedEscape(s, k, LeadingOnes(EscapeByte(s, k)))
    ELSE IF HasChar(s, k - 1, {PERCENT}) \/ HasChar(s, k - 2, {PERCENT}) THEN <<>>
    ELSE <<s[k]>>

decodeURIComponent(s) ==
    IF \E k \in 1..Len(s) :
           /\ s[k] = PERCENT
           /\ ~IsEscape(s, k) \/ BadEscape(s, k, LeadingOnes(EscapeByte(s, k)))
    THEN Throw("URIError")
    ELSE Normal(Flatten([k \in 1..Len(s) |-> DecodedAt(s, k)]))

(***************************************************************************)
(* JavaScript values                                                       *)
(***************************************************************************)
\* (the fields of two types of value differ in name, or hold values of one kind)
Undefined == [type |-> "undefined"]
Null == [type |-> "null"]
Bool(b) == [type |-> "boolean", truth |-> b]
String(s) == [type |-> "string", value |-> s]
Array(elems) == [type |-> "array", elems |-> elems]
\* keys are the own property keys (strings) in creation order, props maps each
\* key to its value.
Object(keys, props) == [type |-> "object", keys |-> keys, props |-> props]
EmptyObject == Object(<<>>, [k \in {} |-> Undefined])

\* CreateDataProperty(obj, key, v)
SetProp(obj, key, v) ==
    Object(IF key \in DOMAIN obj.props THEN obj.keys ELSE Append(obj.keys, key),
           (key :> v) @@ obj.props)

RECURSIVE Pow10(_)
Pow10(n) == IF n = 0 THEN 1 ELSE 10 * Pow10(n - 1)

\* The number mant * 10^(-scale), in lowest terms: scale is 0 exactly for an
\* integer.  Exact decimal arithmetic stands for the IEEE double, which is
\* exact on the literals within the model's bounds (under 16 significant digits).
RECURSIVE Number(_, _)
Number(mant, scale) ==
    IF mant = 0 THEN [type |-> "number", mant |-> 0, scale |-> 0]
    ELSE IF scale < 0 THEN [type |-> "number", mant |-> mant * Pow10(-scale), scale |-> 0]
    ELSE IF scale > 0 /\ mant % 10 = 0 THEN Number(mant \div 10, scale - 1)
    ELSE [type |-> "number", mant |-> mant, scale |-> scale]

\* typeof v
TypeOf(v) == IF v.type \in {"null", "array"} THEN "object" ELSE v.type

\* v.key for a property key that no prototype defines.
GetProp(v, key) ==
    IF v.type = "object" /\ key \in DOMAIN v.props THEN v.props[key] ELSE Undefined

NumberIsInteger(v) == v.type = "number" /\ v.scale = 0

ArrayIsArray(v) == v.type = "array"

(***************************************************************************)
(* JSON.parse (the ECMA-404 grammar; a duplicate key keeps its last value) *)
(***************************************************************************)
\* The value parsed and the index after it.
At(v, i) == [value |-> v, next |-> i]
SyntaxError == Throw("SyntaxError")

Whitespace == {SPACE, TAB, LF, CR}
SkipWhitespace(s, i) == SkipChars(s, i, Whitespace)
SkipDigits(s, i) == SkipChars(s, i, Digits)

\* The value of the decimal digits ds.
RECURSIVE DigitsValue(_)
DigitsValue(ds) ==
    IF ds = <<>> THEN 0
    ELSE 10 * DigitsValue(SubSeq(ds, 1, Len(ds) - 1)) + (ds[Len(ds)] - ZERO)

\* A number whose integer digits are s[i0 .. i1-1], whose fraction digits
\* are s[i1+1 .. i2-1] (none when i2 = i1) and whose exponent is exp.
NumberAt(s, i, i0, i1, i2, exp, next) ==
    At(Number((IF i0 > i THEN -1 ELSE 1)
                  * DigitsValue(SubSeq(s, i0, i1 - 1) \o SubSeq(s, i1 + 1, i2 - 1)),
              (IF i2 > i1 THEN i2 - i1 - 1 ELSE 0) - exp),
       next)

\* The exponent's digits start at i3.
ParseExponentDigits(s, i, i0, i1, i2, i3) ==
    IF SkipDigits(s, i3) = i3 THEN SyntaxError
    ELSE NumberAt(s, i, i0, i1, i2,
                  (IF s[i2 + 1] = MINUS THEN -1 ELSE 1)
                      * DigitsValue(SubSeq(s, i3, SkipDigits(s, i3) - 1)),
                  SkipDigits(s, i3))

ParseExponent(s, i, i0, i1, i2) ==
    IF HasChar(s, i2, {LOWER_E, UPPER_E})
    THEN ParseExponentDigits(s, i, i0, i1, i2,
                             IF HasChar(s, i2 + 1, {PLUS, MINUS}) THEN i2 + 2 ELSE i2 + 1)
    ELSE NumberAt(s, i, i0, i1, i2, 0, i2)

\* The integer digits are s[i0 .. i1-1].
ParseFraction(s, i, i0, i1) ==
    IF i1 = i0 \/ (i1 > i0 + 1 /\ s[i0] = ZERO) THEN SyntaxError
    ELSE IF ~HasChar(s, i1, {DOT}) THEN ParseExponent(s, i, i0, i1, i1)
    ELSE IF SkipDigits(s, i1 + 1) = i1 + 1 THEN SyntaxError
    ELSE ParseExponent(s, i, i0, i1, SkipDigits(s, i1 + 1))

ParseInteger(s, i, i0) == ParseFraction(s, i, i0, SkipDigits(s, i0))

ParseNumber(s, i) == ParseInteger(s, i, IF s[i] = MINUS THEN i + 1 ELSE i)

\* The character an escape \c stands for, or -1.
EscapedChar(c) ==
    CASE c = QUOTE -> QUOTE
      [] c = BSLASH -> BSLASH
      [] c = SLASH -> SLASH
      [] c = LOWER_B -> BACKSPACE
      [] c = LOWER_F -> FORMFEED
      [] c = LOWER_N -> LF
      [] c = LOWER_R -> CR
      [] c = LOWER_T -> TAB
      [] OTHER -> -1

Hex4(s, i) ==
    4096 * HexValue(s[i]) + 256 * HexValue(s[i + 1]) + 16 * HexValue(s[i + 2])
    + HexValue(s[i + 3])

\* The first index from i on of a character a string literal cannot hold
\* plainly: a quote, a backslash, a control character.
PlainRunEnd(s, i) ==
    Min({j \in i..Len(s) : s[j] \in {QUOTE, BSLASH} \/ s[j] < 32} \cup {Len(s) + 1})

RECURSIVE ParseStringChars(_, _, _)

\* The string literal goes on at j, which ends a run of plain characters;
\* acc holds its characters so far.
ParseStringAt(s, j, acc) ==
    IF j > Len(s) THEN SyntaxError
    ELSE IF s[j] = QUOTE THEN At(String(acc), j + 1)
    ELSE IF s[j] < 32 THEN SyntaxError
    ELSE IF j + 1 > Len(s) THEN SyntaxError
    ELSE IF s[j + 1] = LOWER_U
    THEN IF j + 5 <= Len(s) /\ \A h \in 2..5 : IsHexDigit(s[j + h])
         THEN ParseStringChars(s, j + 6, Append(acc, Hex4(s, j + 2)))
         ELSE SyntaxError
    ELSE IF EscapedChar(s[j + 1]) < 0 THEN SyntaxError
    ELSE ParseStringChars(s, j + 2, Append(acc, EscapedChar(s[j + 1])))

\* The characters of a string literal from index i, after its opening quote.
ParseStringChars(s, i, acc) ==
    ParseStringAt(s, PlainRunEnd(s, i), acc \o SubSeq(s, i, PlainRunEnd(s, i) - 1))

RECURSIVE ParseValue(_, _)
RECURSIVE ParseElements(_, _, _)
RECURSIVE ParseMembers(_, _, _)

\* After an element: a comma and the next element, or the closing bracket.
ElementsNext(s, j, elems) ==
    IF HasChar(s, j, {COMMA}) THEN ParseElements(s, SkipWhitespace(s, j + 1), elems)
    ELSE IF HasChar(s, j, {RBRACKET}) THEN At(Array(elems), j + 1)
    ELSE SyntaxError

ElementParsed(s, e, acc) ==
    IF IsThrow(e) THEN e
    ELSE ElementsNext(s, SkipWhitespace(s, e.next), Append(acc, e.value))

\* The elements of an array from index i, where an element must start.
ParseElements(s, i, acc) == ElementParsed(s, ParseValue(s, i), acc)

\* After a member: a comma and the next member, or the closing brace.
MembersNext(s, j, obj) ==
    IF HasChar(s, j, {COMMA}) THEN ParseMembers(s, SkipWhitespace(s, j + 1), obj)
    ELSE IF HasChar(s, j, {RBRACE}) THEN At(obj, j + 1)
    ELSE SyntaxError

MemberParsed(s, v, key, obj) ==
    IF IsThrow(v) THEN v
    ELSE MembersNext(s, SkipWhitespace(s, v.next), SetProp(obj, key, v.value))

\* After a key: the colon at c, then the member's value.
MemberValue(s, c, key, obj) ==
    IF ~HasChar(s, c, {COLON}) THEN SyntaxError
    ELSE MemberParsed(s, ParseValue(s, SkipWhitespace(s, c + 1)), key, obj)

KeyParsed(s, k, obj) ==
    IF IsThrow(k) THEN k
    ELSE MemberValue(s, SkipWhitespace(s, k.next), k.value.value, obj)

\* The members of an object from index i, where a key must start.
ParseMembers(s, i, obj) ==
    IF ~HasChar(s, i, {QUOTE}) THEN SyntaxError
    ELSE KeyParsed(s, ParseStringChars(s, i + 1, <<>>), obj)

\* The object or array opened before j.
ParseObject(s, j) ==
    IF HasChar(s, j, {RBRACE}) THEN At(EmptyObject, j + 1)
    ELSE ParseMembers(s, j, EmptyObject)

ParseArray(s, j) ==
    IF HasChar(s, j, {RBRACKET}) THEN At(Array(<<>>), j + 1)
    ELSE ParseElements(s, j, <<>>)

ParseValue(s, i) ==
    IF i > Len(s) THEN SyntaxError
    ELSE IF s[i] = LBRACE THEN ParseObject(s, SkipWhitespace(s, i + 1))
    ELSE IF s[i] = LBRACKET THEN ParseArray(s, SkipWhitespace(s, i + 1))
    ELSE IF s[i] = QUOTE THEN ParseStringChars(s, i + 1, <<>>)
    ELSE IF s[i] = MINUS \/ s[i] \in Digits THEN ParseNumber(s, i)
    ELSE IF StartsWith(s, i, <<116, 114, 117, 101>>) THEN At(Bool(TRUE), i + 4)        \* true
    ELSE IF StartsWith(s, i, <<102, 97, 108, 115, 101>>) THEN At(Bool(FALSE), i + 5)  \* false
    ELSE IF StartsWith(s, i, <<110, 117, 108, 108>>) THEN At(Null, i + 4)             \* null
    ELSE SyntaxError

\* The value parsed must end the text, whitespace aside.
ParsedText(text, v) ==
    IF IsThrow(v) THEN v
    ELSE IF SkipWhitespace(text, v.next) <= Len(text) THEN SyntaxError
    ELSE Normal(v.value)

JSONparse(text) == ParsedText(text, ParseValue(text, SkipWhitespace(text, 1)))

(***************************************************************************)
(* parseHash and containsReportData                                        *)
(***************************************************************************)
SENDER == <<115, 101, 110, 100, 101, 114>>                             \* sender
RECEIVED_AT == <<114, 101, 99, 101, 105, 118, 101, 100, 95, 97, 116>>  \* received_at
TRACKERS == <<116, 114, 97, 99, 107, 101, 114, 115>>                   \* trackers
\* The name §4.1 of the specification gives the timestamp; no name of the source.
RECEIVED_AT_CAMEL == <<114, 101, 99, 101, 105, 118, 101, 100, 65, 116>>  \* receivedAt

\* trackers.every((tracker) => typeof tracker === "string")
EveryIsString(trackers) ==
    \A i \in 1..Len(trackers.elems) : TypeOf(trackers.elems[i]) = "string"

\* A faulty variant: the elements of trackers go unchecked.
containsReportDataNoEvery(parsed) ==
    /\ TypeOf(parsed) = "object"
    /\ parsed # Null
    /\ TypeOf(GetProp(parsed, SENDER)) = "string"
    /\ NumberIsInteger(GetProp(parsed, RECEIVED_AT))
    /\ ArrayIsArray(GetProp(parsed, TRACKERS))

containsReportData(parsed) ==
    /\ TypeOf(parsed) = "object"
    /\ parsed # Null
    /\ TypeOf(GetProp(parsed, SENDER)) = "string"
    /\ NumberIsInteger(GetProp(parsed, RECEIVED_AT))
    /\ ArrayIsArray(GetProp(parsed, TRACKERS))
    /\ EveryIsString(GetProp(parsed, TRACKERS))

\* A faulty variant: the parsed value is returned as it is.
ReportObjectSpread(data) == data

\* A faulty variant: the timestamp is renamed on the way out.
ReportObjectCamel(data) ==
    SetProp(SetProp(SetProp(EmptyObject,
        SENDER, GetProp(data, SENDER)),
        RECEIVED_AT_CAMEL, GetProp(data, RECEIVED_AT)),
        TRACKERS, GetProp(data, TRACKERS))

\* The object literal of lines 196-200.
ReportObject(data) ==
    SetProp(SetProp(SetProp(EmptyObject,
        SENDER, GetProp(data, SENDER)),
        RECEIVED_AT, GetProp(data, RECEIVED_AT)),
        TRACKERS, GetProp(data, TRACKERS))

\* Lines 193-200, on the completion of JSON.parse.
ReturnReport(data) ==
    IF IsThrow(data) THEN data
    ELSE IF ~containsReportData(data.value) THEN Normal(Null)
    ELSE Normal(ReportObject(data.value))

\* Line 192, on the completion of decodeURIComponent.
ParseDecoded(decoded) ==
    IF IsThrow(decoded) THEN decoded ELSE ReturnReport(JSONparse(decoded.value))

\* A faulty variant: the first character is dropped only when it is "#".
parseHashTryKeepFirst(hash) ==
    ParseDecoded(decodeURIComponent(IF HasChar(hash, 1, {HASH}) THEN Substring(hash, 1)
                                    ELSE hash))

\* The try block of parseHash: its completion.
parseHashTry(hash) == ParseDecoded(decodeURIComponent(Substring(hash, 1)))

\* A faulty variant: only the error of JSON.parse is caught.
CatchSyntaxErrorOnly(c) == IF IsThrow(c) /\ c.thrown = "SyntaxError" THEN Normal(Null) ELSE c

\* catch (e) { return null; }
Catch(c) == IF IsThrow(c) THEN Normal(Null) ELSE c

\* A faulty variant: an empty fragment counts as nothing to parse yet.
parseHashUndefinedOnEmpty(hash) ==
    IF Len(hash) <= 1 THEN Normal(Undefined) ELSE Catch(parseHashTry(hash))

\* The completion of parseHash(hash).
parseHash(hash) == Catch(parseHashTry(hash))

(***************************************************************************)
(* The report URL of lines 16-19: url.hash = JSON.stringify(...), and the  *)
(* window.location.hash the page then reads.                               *)
(***************************************************************************)
RECURSIVE DecimalDigits(_)
DecimalDigits(n) ==
    IF n < 10 THEN <<ZERO + n>>
    ELSE Append(DecimalDigits(n \div 10), ZERO + (n % 10))

Abs(n) == IF n < 0 THEN -n ELSE n

\* ds with zeros before it to make up n digits.
PadZeros(ds, n) == [j \in 1..(n - Len(ds)) |-> ZERO] \o ds

\* The digits ds with a decimal point before the last scale of them.
PointBefore(ds, scale) ==
    SubSeq(ds, 1, Len(ds) - scale) \o <<DOT>> \o SubSeq(ds, Len(ds) - scale + 1, Len(ds))

\* Number::toString for the numbers that print without an exponent.
NumberToString(v) ==
    (IF v.mant < 0 THEN <<MINUS>> ELSE <<>>)
    \o (IF v.scale = 0 THEN DecimalDigits(Abs(v.mant))
        ELSE PointBefore(PadZeros(DecimalDigits(Abs(v.mant)), v.scale + 1), v.scale))

UpperHexDigit(n) == IF n < 10 THEN ZERO + n ELSE UPPER_A + (n - 10)
LowerHexDigit(n) == IF n < 10 THEN ZERO + n ELSE LOWER_A + (n - 10)

\* \uXXXX
UnicodeEscape(c) ==
    <<BSLASH, LOWER_U, LowerHexDigit(c \div 4096), LowerHexDigit((c \div 256) % 16),
      LowerHexDigit((c \div 16) % 16), LowerHexDigit(c % 16)>>

IsHighSurrogate(c) == c \in 55296..56319
IsLowSurrogate(c) == c \in 56320..57343

\* s[i] is half of a surrogate pair.
InPair(s, i) ==
    \/ IsHighSurrogate(s[i]) /\ i < Len(s) /\ IsLowSurrogate(s[i + 1])
    \/ IsLowSurrogate(s[i]) /\ i > 1 /\ IsHighSurrogate(s[i - 1])

\* What QuoteJSONString writes for the code unit c, paired or not.
QuotedChar(c, paired) ==
    CASE c = QUOTE -> <<BSLASH, QUOTE>>
      [] c = BSLASH -> <<BSLASH, BSLASH>>
      [] c = BACKSPACE -> <<BSLASH, LOWER_B>>
      [] c = FORMFEED -> <<BSLASH, LOWER_F>>
      [] c = LF -> <<BSLASH, LOWER_N>>
      [] c = CR -> <<BSLASH, LOWER_R>>
      [] c = TAB -> <<BSLASH, LOWER_T>>
      [] OTHER -> IF c < 32 \/ (~paired /\ (IsHighSurrogate(c) \/ IsLowSurrogate(c)))
                  THEN UnicodeEscape(c)
                  ELSE <<c>>

QuoteJSONString(s) ==
    <<QUOTE>> \o Flatten([i \in 1..Len(s) |-> QuotedChar(s[i], InPair(s, i))]) \o <<QUOTE>>

RECURSIVE JSONstringify(_)

\* The member key: value of obj, after a comma unless it is the first written;
\* none for an undefined value.
StringifiedMember(obj, i) ==
    IF obj.props[obj.keys[i]] = Undefined THEN <<>>
    ELSE (IF \E j \in 1..(i - 1) : obj.props[obj.keys[j]] # Undefined
          THEN <<COMMA>> ELSE <<>>)
         \o QuoteJSONString(obj.keys[i]) \o <<COLON>> \o JSONstringify(obj.props[obj.keys[i]])

StringifiedElement(elems, i) ==
    (IF i > 1 THEN <<COMMA>> ELSE <<>>) \o JSONstringify(elems[i])

\* JSON.stringify(v) of a value that is not undefined.
JSONstringify(v) ==
    CASE v.type = "null" -> <<110, 117, 108, 108>>                                \* null
      [] v.type = "boolean" ->
            IF v.truth THEN <<116, 114, 117, 101>> ELSE <<102, 97, 108, 115, 101>>  \* true, false
      [] v.type = "number" -> NumberToString(v)
      [] v.type = "string" -> QuoteJSONString(v.value)
      [] v.type = "array" ->
            <<LBRACKET>>
            \o Flatten([i \in 1..Len(v.elems) |-> StringifiedElement(v.elems, i)])
            \o <<RBRACKET>>
      [] v.type = "object" ->
            <<LBRACE>>
            \o Flatten([i \in 1..Len(v.keys) |-> StringifiedMember(v, i)])
            \o <<RBRACE>>

\* The UTF-8 octets of a code point.
Utf8Encode(cp) ==
    IF cp < 128 THEN <<cp>>
    ELSE IF cp < 2048 THEN <<192 + (cp \div 64), 128 + (cp % 64)>>
    ELSE IF cp < 65536
    THEN <<224 + (cp \div 4096), 128 + ((cp \div 64) % 64), 128 + (cp % 64)>>
    ELSE <<240 + (cp \div 262144), 128 + ((cp \div 4096) % 64),
           128 + ((cp \div 64) % 64), 128 + (cp % 64)>>

PercentEncodeByte(b) == <<PERCENT, UpperHexDigit(b \div 16), UpperHexDigit(b % 16)>>

PercentEncodeBytes(bytes) == Flatten([j \in 1..Len(bytes) |-> PercentEncodeByte(bytes[j])])

\* The fragment percent-encode set of the URL standard.
InFragmentPercentEncodeSet(cp) ==
    cp <= 31 \/ cp > 126 \/ cp \in {SPACE, QUOTE, LESS, GREATER, BACKTICK}

FragmentEncodeCodePoint(cp) ==
    IF InFragmentPercentEncodeSet(cp) THEN PercentEncodeBytes(Utf8Encode(cp)) ELSE <<cp>>

\* What the URL parser's fragment state writes for s[i]: tabs and newlines
\* are dropped, a surrogate pair is one code point, a lone surrogate U+FFFD.
FragmentEncodedAt(s, i) ==
    IF s[i] \in {TAB, LF, CR} THEN <<>>
    ELSE IF ~IsHighSurrogate(s[i]) /\ ~IsLowSurrogate(s[i]) THEN FragmentEncodeCodePoint(s[i])
    ELSE IF ~InPair(s, i) THEN FragmentEncodeCodePoint(65533)
    ELSE IF IsLowSurrogate(s[i]) THEN <<>>
    ELSE FragmentEncodeCodePoint(65536 + (s[i] - 55296) * 1024 + (s[i + 1] - 56320))

FragmentEncode(s) == Flatten([i \in 1..Len(s) |-> FragmentEncodedAt(s, i)])

\* "#" and the fragment, or "" for an empty fragment.
HashOfFragment(fragment) == IF fragment = <<>> THEN <<>> ELSE <<HASH>> \o fragment

\* window.location.hash after url.hash = value.
LocationHash(value) ==
    HashOfFragment(FragmentEncode(IF HasChar(value, 1, {HASH}) THEN Tail(value) ELSE value))

\* The hash of the report URL generated for the value v.
ReportUrlHash(v) == LocationHash(JSONstringify(v))

(***************************************************************************)
(* Bounds and the inputs drawn within them                                 *)
(***************************************************************************)
MaxTrackers == 2
MaxRawLen == 3
MaxEvents == 2

NotCalled == [type |-> "undefined"]
NoOrigin == [type |-> "undefined"]

\* The sequences over S of length n, and of length at most n.
RECURSIVE SeqsOfLen(_, _)
SeqsOfLen(S, n) ==
    IF n = 0 THEN {<<>>} ELSE {Append(q, x) : q \in SeqsOfLen(S, n - 1), x \in S}

SeqsUpTo(S, n) == UNION {SeqsOfLen(S, k) : k \in 0..n}

\* Senders: plain, empty, with a percent sign, with characters that
\* JSON.stringify and the URL escape (a quote, a non-ASCII letter).
Senders ==
    { <<97, 64, 98>>,   \* a@b
      <<>>,
      <<37, 52, 49>>,   \* %41
      <<34, 233>> }     \* "é

TrackerNames ==
    { <<120>>,            \* x
      <<121, 46, 122>> }  \* y.z

SenderChoices == {Undefined, Null, Number(1, 0)} \cup {String(q) : q \in Senders}

ReceivedAtChoices ==
    { Undefined, Null, String(<<49>>),
      Number(0, 0), Number(12, 0), Number(-3, 0), Number(15, 1) }

TrackersChoices ==
    { Undefined, Null, String(<<120>>), EmptyObject,
      Array(<<String(<<120>>), Number(2, 0)>>) }
    \cup {Array(q) : q \in SeqsUpTo({String(t) : t \in TrackerNames}, MaxTrackers)}

\* Further members of the document: none, an unrelated one ("x": 1), one
\* under the camel-case name.
ExtraChoices ==
    { EmptyObject,
      SetProp(EmptyObject, <<120>>, Number(1, 0)),
      SetProp(EmptyObject, RECEIVED_AT_CAMEL, Number(7, 0)) }

\* obj with the property key: v, unless v is undefined.
WithProp(obj, key, v) == IF v = Undefined THEN obj ELSE SetProp(obj, key, v)

\* obj with the member of extra, if it has one.
WithExtra(obj, extra) ==
    IF extra = EmptyObject THEN obj
    ELSE SetProp(obj, extra.keys[1], extra.props[extra.keys[1]])

Document(snd, rcv, trk, extra) ==
    WithExtra(WithProp(WithProp(WithProp(EmptyObject, SENDER, snd), RECEIVED_AT, rcv),
                       TRACKERS, trk),
              extra)

\* The values a report URL is generated from: objects of every shape, and
\* values that are no object.
Documents ==
    { Document(snd, rcv, trk, extra) :
        snd \in SenderChoices, rcv \in ReceivedAtChoices,
        trk \in TrackersChoices, extra \in ExtraChoices }
    \cup { Null, Bool(TRUE), Number(1, 0), String(<<97>>), Array(<<>>),
           Array(<<Number(1, 0), Number(2, 0), Number(3, 0)>>) }

\* % 4 1 { } [ ] "
RawAlphabet == {PERCENT, 52, 49, LBRACE, RBRACE, LBRACKET, RBRACKET, QUOTE}

RawStrings == SeqsUpTo(RawAlphabet, MaxRawLen)

\* The first character of an argument of parseHash.
FirstChars == {HASH, LBRACE}

\* The fragments the page is opened with or navigated to.
PageDocuments ==
    { Document(String(<<97, 64, 98>>), Number(12, 0), Array(<<>>), EmptyObject),
      Document(String(<<97, 64, 98>>), Number(12, 0), Array(<<String(<<120>>)>>),
               EmptyObject),
      Document(String(<<97, 64, 98>>), Number(12, 0), Undefined, EmptyObject),
      Array(<<>>) }

PageHashes ==
    {ReportUrlHash(v) : v \in PageDocuments}
    \cup {LocationHash(raw) : raw \in SeqsUpTo(RawAlphabet, 1)}

(***************************************************************************)
(* A call of parseHash on an arbitrary string                              *)
(***************************************************************************)
CallInputs ==
    {[origin |-> v, input |-> ReportUrlHash(v)] : v \in Documents}
    \cup {[origin |-> NoOrigin, input |-> <<c>> \o Tail(ReportUrlHash(v))] :
            v \in Documents, c \in FirstChars \ {HASH}}
    \cup {[origin |-> NoOrigin, input |-> raw] : raw \in RawStrings}
    \cup {[origin |-> NoOrigin, input |-> <<c>> \o raw] : raw \in RawStrings, c \in FirstChars}

ParseInit ==
    /\ locationHash = <<>>
    /\ reportData = Undefined
    /\ phase = "rendered"
    /\ listening = FALSE
    /\ events = 0
    /\ output = NotCalled
    /\ \E i \in CallInputs : origin = i.origin /\ input = i.input

Call ==
    /\ output = NotCalled
    /\ output' = parseHash(input)
    /\ UNCHANGED <<input, origin, pageVars>>

ParseNext == Call

ParseSpec == ParseInit /\ [][ParseNext]_vars

(***************************************************************************)
(* The page: TrackerReport                                                 *)
(***************************************************************************)
Init ==
    /\ locationHash \in PageHashes
    /\ reportData = Undefined
    /\ phase = "rendered"
    /\ listening = FALSE
    /\ events = 0
    /\ input = <<>>
    /\ output = NotCalled
    /\ origin = NoOrigin

\* A faulty variant: a report stays on screen when the new fragment does not parse.
updateReportDataKeepOnFailure(c) ==
    IF IsThrow(c) THEN reportData
    ELSE IF c.value = Null /\ reportData # Undefined THEN reportData
    ELSE c.value

\* setReportData(parseHash(window.location.hash)) of line 33, on the
\* completion c of the call: the next value of reportData.
updateReportData(c) == IF IsThrow(c) THEN reportData ELSE c.value

\* A faulty variant: the effect registers the listener and leaves out line 35.
MountWithoutInitialParse ==
    /\ phase = "rendered"
    /\ phase' = "mounted"
    /\ listening' = TRUE
    /\ UNCHANGED <<locationHash, reportData, events, callVars>>

\* The effect of lines 31-36: updateReportData(), then addEventListener; an
\* error thrown in the effect takes the page down.
Mount ==
    /\ phase = "rendered"
    /\ reportData' = updateReportData(parseHash(locationHash))
    /\ phase' = IF IsThrow(parseHash(locationHash)) THEN "crashed" ELSE "mounted"
    /\ listening' = ~IsThrow(parseHash(locationHash))
    /\ UNCHANGED <<locationHash, events, callVars>>

\* The browser navigates to another fragment and queues a hashchange event.
Navigate ==
    /\ events < MaxEvents
    /\ \E h \in PageHashes \ {locationHash} : locationHash' = h
    /\ events' = events + 1
    /\ UNCHANGED <<reportData, phase, listening, callVars>>

\* The browser dispatches a queued hashchange event: updateReportData runs
\* if it is registered.
HashChange ==
    /\ events > 0
    /\ events' = events - 1
    /\ reportData' = IF listening THEN updateReportData(parseHash(locationHash))
                     ELSE reportData
    /\ UNCHANGED <<locationHash, phase, listening, callVars>>

\* The effect's cleanup of lines 37-39.
Unmount ==
    /\ phase = "mounted"
    /\ listening' = FALSE
    /\ phase' = "unmounted"
    /\ UNCHANGED <<locationHash, reportData, events, callVars>>

\* The class of the element lines 42-57 render.
View ==
    IF TypeOf(reportData) = "undefined" THEN "loading"
    ELSE IF reportData = Null THEN "load-error"
    ELSE "wrapper"

Next == Mount \/ Navigate \/ HashChange \/ Unmount

Spec == Init /\ [][Next]_vars

(***************************************************************************)
(* Properties of a call of parseHash (ParseSpec)                           *)
(***************************************************************************)
Called == output # NotCalled

\* The completion of JSON.parse on the decoded body: what the fragment carries.
DocumentOf(decoded) == IF IsThrow(decoded) THEN decoded ELSE JSONparse(decoded.value)
InputDocument == DocumentOf(decodeURIComponent(Substring(input, 1)))

\* The shape invariant of ReportData (§3), on a JSON value.
HasField(v, key, type) == key \in DOMAIN v.props /\ v.props[key].type = type

IsReportShape(v) ==
    /\ v.type = "object"
    /\ HasField(v, SENDER, "string")
    /\ HasField(v, RECEIVED_AT, "number")
    /\ v.props[RECEIVED_AT].scale = 0
    /\ HasField(v, TRACKERS, "array")
    /\ \A i \in 1..Len(v.props[TRACKERS].elems) : v.props[TRACKERS].elems[i].type = "string"

ReportFields == {SENDER, RECEIVED_AT, TRACKERS}

\* doc carries a value of the shape of a report.
CarriesReport(doc) == ~IsThrow(doc) /\ IsReportShape(doc.value)

Succeeded(out) == ~IsThrow(out) /\ out.value # Null

AcceptedIffReportShape(doc, out) ==
    /\ ~IsThrow(out)
    /\ (out.value # Null) <=> IsReportShape(doc.value)
    /\ out.value # Null => IsReportShape(out.value)

\* C1: a fragment whose decoded body parses as JSON yields a report if and
\* only if the parsed value is an object with a string sender, an integer
\* received_at and an array trackers of strings; any other value is rejected
\* as a whole (the result is null, never a report lacking a field).
C1_AcceptedIffReportShape ==
    (Called /\ ~IsThrow(InputDocument)) => AcceptedIffReportShape(InputDocument, output)

\* A document with every field in place but a tracker that is no string was rejected.
C1_Witness ==
    /\ Called
    /\ ~IsThrow(InputDocument)
    /\ InputDocument.value.type = "object"
    /\ HasField(InputDocument.value, SENDER, "string")
    /\ HasField(InputDocument.value, RECEIVED_AT, "number")
    /\ HasField(InputDocument.value, TRACKERS, "array")
    /\ \E i \in 1..Len(InputDocument.value.props[TRACKERS].elems) :
           InputDocument.value.props[TRACKERS].elems[i].type # "string"
    /\ output = Normal(Null)

CopiesExactlyTheFields(v, out) ==
    /\ Succeeded(out)
    /\ out.value.type = "object"
    /\ DOMAIN out.value.props = ReportFields
    /\ Len(out.value.keys) = 3
    /\ \A k \in ReportFields : out.value.props[k] = v.props[k]

\* C2: for a valid input {sender: S, received_at: T, trackers: [t1..tn]},
\* whatever further fields it has, the result has sender S, timestamp T and
\* trackers [t1..tn] in the same order with duplicates kept, and has exactly
\* these three fields.
C2_CopiesExactlyTheFields ==
    (Called /\ CarriesReport(InputDocument))
        => CopiesExactlyTheFields(InputDocument.value, output)

\* A valid document with a fourth field and the same tracker twice was parsed.
C2_Witness ==
    /\ Called
    /\ CarriesReport(InputDocument)
    /\ Cardinality(DOMAIN InputDocument.value.props) = 4
    /\ Len(InputDocument.value.props[TRACKERS].elems) = 2
    /\ InputDocument.value.props[TRACKERS].elems[1] = InputDocument.value.props[TRACKERS].elems[2]
    /\ Succeeded(output)
    /\ output.value.props[TRACKERS] = InputDocument.value.props[TRACKERS]

\* C3 as claimed: on success the timestamp is exposed as receivedAt, and the
\* result has no field received_at.
C3_RenamedToReceivedAt ==
    (Called /\ Succeeded(output))
        => /\ RECEIVED_AT_CAMEL \in DOMAIN output.value.props
           /\ RECEIVED_AT \notin DOMAIN output.value.props

KeepsName(v, out) ==
    /\ RECEIVED_AT \in DOMAIN out.value.props
    /\ RECEIVED_AT_CAMEL \notin DOMAIN out.value.props
    /\ out.value.props[RECEIVED_AT] = v.props[RECEIVED_AT]

\* C3 as amended: on success the timestamp is exposed under the name of the
\* input, received_at, with the input's value, and the result has no field
\* receivedAt, not even when the input has one.
C3_KeepsReceivedAtName ==
    (Called /\ Succeeded(output)) => KeepsName(InputDocument.value, output)

\* A valid document that also has a field receivedAt was parsed.
C3_Witness ==
    /\ Called
    /\ Succeeded(output)
    /\ RECEIVED_AT_CAMEL \in DOMAIN InputDocument.value.props
    /\ output.value.props[RECEIVED_AT] # InputDocument.value.props[RECEIVED_AT_CAMEL]

\* C4: parseHash is total: every call returns (nothing is thrown to the
\* caller) either a report or null, and a decoding error, a syntax error and
\* a shape violation all yield the same null.
C4_TotalWithOneFailureSignal ==
    Called => /\ ~IsThrow(output)
              /\ output.value = Null \/ IsReportShape(output.value)
              /\ ~CarriesReport(InputDocument) => output = Normal(Null)

\* A fragment whose percent-encoding is malformed was parsed.
C4_Witness ==
    /\ Called
    /\ IsThrow(InputDocument)
    /\ InputDocument.thrown = "URIError"
    /\ output = Normal(Null)

\* C5: parseHash("") and parseHash("#") return null: no input of at most one
\* character, whose body is therefore empty, is accepted.
C5_EmptyBodyFails == (Called /\ Len(input) <= 1) => output = Normal(Null)

\* The empty string was parsed.
C5_Witness == Called /\ input = <<>> /\ output = Normal(Null)

\* origin is a ReportData: a report shape with no further field.
IsReportData(v) == v # NoOrigin /\ IsReportShape(v) /\ DOMAIN v.props = ReportFields

EqualInAllFields(out, v) ==
    /\ Succeeded(out)
    /\ \A k \in ReportFields : out.value.props[k] = v.props[k]

\* C6: a ReportData encoded as the report URL's hash parses back to a
\* report equal to it in all three fields.
C6_RoundTrip == (Called /\ IsReportData(origin)) => EqualInAllFields(output, origin)

\* C9: the first character is dropped unchecked: the result is that of every
\* input with another first character and the same rest.
C9_FirstCharIgnored ==
    (Called /\ Len(input) >= 1)
        => \A c \in FirstChars : output = parseHash(<<c>> \o Tail(input))

\* An input that starts with "{" in place of "#" was accepted.
C9_Witness == Called /\ HasChar(input, 1, {LBRACE}) /\ Succeeded(output)

(***************************************************************************)
(* Properties of the page (Spec)                                           *)
(***************************************************************************)
\* The step runs updateReportData: the effect, or a dispatched hashchange
\* event with the listener registered.
Handled ==
    \/ phase = "rendered" /\ phase' = "mounted"
    \/ listening /\ events' = events - 1

\* C8: reportData changes only in a step that handles the initial load or a
\* hashchange event, and after such a step it is the parse of the fragment
\* current then: null when parseHash fails on it, the report otherwise.  So
\* the error view stays until a hashchange event is handled.
C8_ViewFollowsHandledFragment ==
    [][ /\ reportData' # reportData => Handled
        /\ Handled => /\ locationHash' = locationHash
                      /\ reportData' = parseHash(locationHash).value ]_vars

\* The page shows the error view while a hashchange to a fragment that
\* parses waits to be dispatched.
C8_Witness ==
    /\ phase = "mounted"
    /\ View = "load-error"
    /\ events > 0
    /\ Succeeded(parseHash(locationHash))

\* C10: the loading view is that of the page before its first parse and of
\* no later state: once mounted the view is the error or the report, whatever
\* fragments, empty and malformed ones included, the page was navigated to.
C10_LoadingOnlyBeforeFirstParse ==
    /\ phase = "rendered" => View = "loading"
    /\ phase # "rendered" => View \in {"load-error", "wrapper"}

\* The mounted page shows the error view for an empty fragment, every event dispatched.
C10_Witness ==
    /\ phase = "mounted"
    /\ locationHash = <<>>
    /\ events = 0
    /\ View = "load-error"
====
